---- MODULE Spec2Model ----
(***************************************************************************)
(* A model of skills-cli: the persisted registry (lib/config.ts), the     *)
(* directory fingerprint (lib/hash.ts) and the store -> target mirror     *)
(* (commands/sync.ts).                                                     *)
(*                                                                         *)
(* Strings of the program are sequences of one-grapheme tokens, so that   *)
(* split("/"), template strings and join("|") are computed as the code    *)
(* computes them.  A file system is a tree of nodes.                       *)
(***************************************************************************)
EXTENDS Integers, Sequences, FiniteSets, TLC

VARIABLES
    fs,              \* the file system: the root directory node
    DEFAULT_CONFIG,  \* the module-level object of lib/config.ts (one per process)
    op,              \* the last call: its name, argument and result
    before           \* content of CONFIG_PATH when that call began

vars == <<fs, DEFAULT_CONFIG, op, before>>

(***************************** bounds **************************************)
MaxSources == 2      \* longest list of sources a call may build
MaxTargets == 2      \* longest list of targets a call may build

(***************************** strings *************************************)
Slash == "/"

RECURSIVE SplitFrom(_, _, _)
\* s.split("/"): acc is the list of finished segments, cur the open one
SplitFrom(s, acc, cur) ==
    IF s = <<>> THEN Append(acc, cur)
    ELSE IF Head(s) = Slash THEN SplitFrom(Tail(s), Append(acc, cur), <<>>)
    ELSE SplitFrom(Tail(s), acc, Append(cur, Head(s)))

Split(s) == SplitFrom(s, <<>>, <<>>)

Last(q) == q[Len(q)]

\* JavaScript truthiness of an optional string property
Truthy(obj, field) == field \in DOMAIN obj /\ obj[field] # <<>>

(***************************** file system *********************************)
Missing == [kind |-> "missing"]
File(c) == [kind |-> "file", content |-> c]
Dir(e) == [kind |-> "dir", entries |-> e]
EmptyDir == Dir(<<>>)

IsDir(node) == node.kind = "dir"
IsFile(node) == node.kind = "file"

RECURSIVE Lookup(_, _)
\* the node a path names, Missing when a component is absent or not a directory
Lookup(node, path) ==
    IF path = <<>> THEN node
    ELSE IF ~IsDir(node) THEN Missing
    ELSE IF Head(path) \notin DOMAIN node.entries THEN Missing
    ELSE Lookup(node.entries[Head(path)], Tail(path))

WithEntry(entries, name, child) ==
    IF child = Missing
    THEN [n \in DOMAIN entries \ {name} |-> entries[n]]
    ELSE [n \in DOMAIN entries \cup {name} |->
             IF n = name THEN child ELSE entries[n]]

RECURSIVE Put(_, _, _)
\* the tree with the node at path replaced by new (Missing removes it);
\* absent intermediate directories are created
Put(node, path, new) ==
    IF path = <<>> THEN new
    ELSE LET ents == IF IsDir(node) THEN node.entries ELSE <<>>
             child == IF Head(path) \in DOMAIN ents THEN ents[Head(path)] ELSE Missing
         IN  Dir(WithEntry(ents, Head(path), Put(child, Tail(path), new)))

\* stat(path).isDirectory() inside try/catch
directoryExists(tree, path) == IsDir(Lookup(tree, path))

\* mkdir(path, {recursive: true}) throws when a component is a regular file
MkdirFails(tree, path) ==
    \E i \in 1..Len(path) : IsFile(Lookup(tree, SubSeq(path, 1, i)))

RECURSIVE MkdirP(_, _)
MkdirP(tree, path) ==
    IF path = <<>> \/ IsDir(Lookup(tree, path)) THEN tree
    ELSE Put(MkdirP(tree, SubSeq(path, 1, Len(path) - 1)), path, EmptyDir)

(***************************** paths.ts ************************************)
SKILLS_ROOT == << <<".skills">> >>
SKILLS_STORE == SKILLS_ROOT \o << <<"store">> >>
CONFIG_PATH == SKILLS_ROOT \o << <<"config.json">> >>

(***************************** lib/config.ts *******************************)
Absent == [kind |-> "absent"]
Corrupt == [kind |-> "corrupt"]

\* what CONFIG_PATH holds: Absent, Corrupt (not JSON) or a JSON document
ConfigFile(tree) ==
    LET n == Lookup(tree, CONFIG_PATH)
    IN  IF IsFile(n) THEN n.content ELSE Absent

EmptyConfig == [sources |-> <<>>, targets |-> <<>>]

\* JSON.stringify(config, null, 2): the document with the object's own properties
JSONstringify(config) ==
    [kind |-> "json", sources |-> config.sources, targets |-> config.targets]

\* configFile.json() of a document
JSONparse(doc) == [sources |-> doc.sources, targets |-> doc.targets]

ensureDirectoriesFails(tree) ==
    MkdirFails(tree, SKILLS_ROOT) \/ MkdirFails(tree, SKILLS_STORE)

ensureDirectories(tree) == MkdirP(MkdirP(tree, SKILLS_ROOT), SKILLS_STORE)

\* writeConfig serialising config.sources and no targets
writeConfig_sourcesOnly(tree, config) ==
    Put(ensureDirectories(tree), CONFIG_PATH,
        File(JSONstringify([sources |-> config.sources, targets |-> <<>>])))

\* Bun.write(CONFIG_PATH, JSON.stringify(config, null, 2)) after ensureDirectories
writeConfig(tree, config) ==
    Put(ensureDirectories(tree), CONFIG_PATH, File(JSONstringify(config)))

\* Bun.file(path).exists(): true for a regular file, false for a missing
\* path; for a directory the runtime's answer is left open
BunFileExists(node) ==
    IF IsFile(node) THEN {TRUE}
    ELSE IF IsDir(node) THEN {TRUE, FALSE}
    ELSE {FALSE}

\* rename(oldPath, newPath): the outcomes of rename(2)
renameFails(tree, oldPath, newPath) ==
    LET o == Lookup(tree, oldPath)
        n == Lookup(tree, newPath)
    IN  \/ o = Missing
        \/ IsDir(o) /\ IsFile(n)
        \/ IsDir(o) /\ IsDir(n) /\ DOMAIN n.entries # {} /\ oldPath # newPath
        \/ IsFile(o) /\ IsDir(n)
        \/ ~IsDir(Lookup(tree, SubSeq(newPath, 1, Len(newPath) - 1)))

rename(tree, oldPath, newPath) ==
    IF oldPath = newPath THEN tree
    ELSE Put(Put(tree, oldPath, Missing), newPath, Lookup(tree, oldPath))

\* rm(parentDir, {recursive: false}) inside try/catch: a non-empty directory
\* stays; whether an empty one is removed is left open
rmNonRecursive(tree, path) ==
    LET n == Lookup(tree, path)
    IN  IF IsFile(n) THEN {Put(tree, path, Missing)}
        ELSE IF IsDir(n) /\ DOMAIN n.entries = {} THEN {tree, Put(tree, path, Missing)}
        ELSE {tree}

\* the file systems migrateSkillFolder(oldNamespace, newName) can leave
migrateSkillFolder(tree, oldNamespace, newName) ==
    LET oldPath == SKILLS_STORE \o Split(oldNamespace)
        newPath == SKILLS_STORE \o <<newName>>
        parentDir == SKILLS_STORE \o <<Head(Split(oldNamespace))>>
        oldExists == BunFileExists(Lookup(tree, oldPath \o << <<"SKILL.md">> >>))
                         \cup BunFileExists(Lookup(tree, oldPath))
        newExists == BunFileExists(Lookup(tree, newPath))
        moved == IF renameFails(tree, oldPath, newPath) THEN {tree}
                 ELSE rmNonRecursive(rename(tree, oldPath, newPath), parentDir)
    IN  (IF FALSE \in oldExists \/ TRUE \in newExists THEN {tree} ELSE {})
        \cup (IF TRUE \in oldExists /\ FALSE \in newExists THEN moved ELSE {})

NeedsMigration(source) == Truthy(source, "namespace") /\ ~Truthy(source, "name")

\* a migration that sets the name and keeps the namespace
MigratedSource_keepNamespace(source) ==
    IF NeedsMigration(source)
    THEN [f \in DOMAIN source \cup {"name"} |->
             IF f = "name" THEN Last(Split(source.namespace)) ELSE source[f]]
    ELSE source

\* source.name = newName; delete source.namespace
MigratedSource(source) ==
    IF NeedsMigration(source)
    THEN [f \in (DOMAIN source \ {"namespace"}) \cup {"name"} |->
             IF f = "name" THEN Last(Split(source.namespace)) ELSE source[f]]
    ELSE source

RECURSIVE MigrateFolders(_, _)
\* the loop of readConfig over content.sources, as far as the store goes
MigrateFolders(trees, sources) ==
    IF sources = <<>> THEN trees
    ELSE LET s == Head(sources)
             next == IF NeedsMigration(s)
                     THEN UNION {migrateSkillFolder(t, s.namespace, Last(Split(s.namespace))) :
                                    t \in trees}
                     ELSE trees
         IN  MigrateFolders(next, Tail(sources))

\* readConfig(): the set of outcomes [threw, fs, config, shared]; shared says
\* that the object returned is DEFAULT_CONFIG itself
readConfig(tree, dflt) ==
    IF ensureDirectoriesFails(tree)
    THEN {[threw |-> TRUE, fs |-> tree, config |-> EmptyConfig, shared |-> FALSE]}
    ELSE LET t0 == ensureDirectories(tree)
             doc == ConfigFile(t0)
         IN  IF doc.kind # "json"
             THEN {[threw |-> FALSE, fs |-> writeConfig(t0, dflt),
                    config |-> dflt, shared |-> TRUE]}
             ELSE LET content == JSONparse(doc)
                      migrated == [sources |-> [i \in DOMAIN content.sources |->
                                                   MigratedSource(content.sources[i])],
                                   targets |-> content.targets]
                      needsMigration == \E i \in DOMAIN content.sources :
                                            NeedsMigration(content.sources[i])
                  IN  {[threw |-> FALSE,
                        fs |-> IF needsMigration THEN writeConfig(t, migrated) ELSE t,
                        config |-> migrated, shared |-> FALSE] :
                          t \in MigrateFolders({t0}, content.sources)}

\* s.name === name, for an entry that may lack the property
HasName(entry, name) == "name" \in DOMAIN entry /\ entry.name = name

\* Array.prototype.findIndex: the first index whose entry has the name, 0 for -1
findIndex(list, name) ==
    IF \E i \in DOMAIN list : HasName(list[i], name)
    THEN CHOOSE i \in DOMAIN list :
             /\ HasName(list[i], name)
             /\ \A j \in 1..(i - 1) : ~HasName(list[j], name)
    ELSE 0

\* list.splice(index, 1)
splice(list, index) == SubSeq(list, 1, index - 1) \o SubSeq(list, index + 1, Len(list))

(***************************** inputs **************************************)
U1 == <<"u", "1">>
U2 == <<"u", "2">>
P1 == <<"/", "p", "1">>
P2 == <<"/", "p", "2">>
NameX == <<"x">>
NameY == <<"y">>

\* entries written by the namespace-keyed schema
LegacyAX == [type |-> "remote", url |-> U1, namespace |-> <<"a", "/", "x">>]
LegacyBX == [type |-> "remote", url |-> U2, namespace |-> <<"b", "/", "x">>]
LegacyLY == [type |-> "local", path |-> P2, namespace |-> <<"l", "/", "y">>]

\* entries of the name-keyed schema
Sources ==
    { [type |-> "remote", url |-> U1, name |-> NameX],
      [type |-> "local", path |-> P1, name |-> NameX],
      [type |-> "local", path |-> P2, name |-> NameY] }

Targets == { [name |-> <<"t">>, path |-> <<"/", "t", "1">>] }

TargetNames == {<<"t">>, <<"u">>}

Lists(S, n) == UNION {[1..k -> S] : k \in 0..n}

\* the key under which a schema keeps its entries unique
KeyOf(entry) == IF "name" \in DOMAIN entry THEN entry.name ELSE entry.namespace

UniqueKeys(list) ==
    \A i, j \in DOMAIN list : i # j => KeyOf(list[i]) # KeyOf(list[j])

\* the registries a released version of the tool can have written
Configs ==
    {[sources |-> ss, targets |-> ts] :
        ss \in {q \in Lists(Sources, MaxSources) : UniqueKeys(q)},
        ts \in {q \in Lists(Targets, MaxTargets) : UniqueKeys(q)}}

\* registries written under the namespace-keyed schema, namespaces unique
LegacyConfigs ==
    {[sources |-> ss, targets |-> <<>>] :
        ss \in {<<LegacyLY>>, <<LegacyAX, LegacyBX>>}}

\* the configs handed to writeConfig directly
WriteInputs ==
    {c \in Configs : Len(c.sources) # 1 /\ (c.sources # <<>> => c.sources[1].type = "remote")}

SkillFolder == Dir(<<"SKILL.md">> :> File([kind |-> "text", id |-> "1"]))

RECURSIVE StoreOf(_, _)
\* a store holding one folder per entry, where its schema keeps it
StoreOf(tree, sources) ==
    IF sources = <<>> THEN tree
    ELSE StoreOf(Put(tree, SKILLS_STORE \o Split(KeyOf(Head(sources))), SkillFolder),
                 Tail(sources))

Installed(config) ==
    Put(StoreOf(ensureDirectories(EmptyDir), config.sources),
        CONFIG_PATH, File(JSONstringify(config)))

NoCall == [name |-> "none"]

\* the record of a call; prev remembers a writeConfig or a syncToTarget that
\* came right before
Call(name, arg, ret) ==
    [name |-> name, arg |-> arg, ret |-> ret,
     prev |-> IF op.name \in {"writeConfig", "syncToTarget"}
              THEN [name |-> op.name, arg |-> op.arg, ret |-> op.ret]
              ELSE NoCall]

Returned(v) == [tag |-> "value", value |-> v]
Null == [tag |-> "null"]
Void == [tag |-> "void"]
Threw(e) == [tag |-> "throw", error |-> e]
NoArg == [tag |-> "none"]

(***************************** the registry *********************************)
\* a first run, a run over a registry left by an earlier release, or over a
\* file that is not JSON
InitRegistry ==
    /\ fs \in {EmptyDir, Put(ensureDirectories(EmptyDir), CONFIG_PATH, File(Corrupt))}
              \cup {Installed(c) : c \in LegacyConfigs}
    /\ DEFAULT_CONFIG = EmptyConfig
    /\ op = NoCall
    /\ before = ConfigFile(fs)

ReadConfig ==
    /\ before' = ConfigFile(fs)
    /\ \E r \in readConfig(fs, DEFAULT_CONFIG) :
          /\ fs' = r.fs
          /\ op' = Call("readConfig", NoArg,
                        IF r.threw THEN Threw("mkdir") ELSE Returned(r.config))
    /\ UNCHANGED DEFAULT_CONFIG

WriteConfig(config) ==
    /\ before' = ConfigFile(fs)
    /\ ~ensureDirectoriesFails(fs)
    /\ fs' = writeConfig(fs, config)
    /\ op' = Call("writeConfig", config, Void)
    /\ UNCHANGED DEFAULT_CONFIG

AddSource(source) ==
    /\ before' = ConfigFile(fs)
    /\ \E r \in readConfig(fs, DEFAULT_CONFIG) :
          IF r.threw
          THEN /\ fs' = r.fs
               /\ op' = Call("addSource", source, Threw("mkdir"))
               /\ UNCHANGED DEFAULT_CONFIG
          ELSE IF findIndex(r.config.sources, source.name) # 0
          THEN /\ fs' = r.fs
               /\ op' = Call("addSource", source, Threw("NameCollision"))
               /\ UNCHANGED DEFAULT_CONFIG
          ELSE LET config == [r.config EXCEPT !.sources = Append(@, source)]
               IN  /\ Len(r.config.sources) < MaxSources
                   /\ fs' = writeConfig(r.fs, config)
                   /\ DEFAULT_CONFIG' = IF r.shared THEN config ELSE DEFAULT_CONFIG
                   /\ op' = Call("addSource", source, Void)

RemoveSource(name) ==
    /\ before' = ConfigFile(fs)
    /\ \E r \in readConfig(fs, DEFAULT_CONFIG) :
          LET index == findIndex(r.config.sources, name)
              config == [r.config EXCEPT !.sources = splice(@, index)]
          IN  IF r.threw
              THEN /\ fs' = r.fs
                   /\ op' = Call("removeSource", name, Threw("mkdir"))
                   /\ UNCHANGED DEFAULT_CONFIG
              ELSE IF index = 0
              THEN /\ fs' = r.fs
                   /\ op' = Call("removeSource", name, Null)
                   /\ UNCHANGED DEFAULT_CONFIG
              ELSE /\ fs' = writeConfig(r.fs, config)
                   /\ DEFAULT_CONFIG' = IF r.shared THEN config ELSE DEFAULT_CONFIG
                   /\ op' = Call("removeSource", name, Returned(r.config.sources[index]))

AddTarget(target) ==
    /\ before' = ConfigFile(fs)
    /\ \E r \in readConfig(fs, DEFAULT_CONFIG) :
          IF r.threw
          THEN /\ fs' = r.fs
               /\ op' = Call("addTarget", target, Threw("mkdir"))
               /\ UNCHANGED DEFAULT_CONFIG
          ELSE IF findIndex(r.config.targets, target.name) # 0
          THEN /\ fs' = r.fs
               /\ op' = Call("addTarget", target, Threw("NameCollision"))
               /\ UNCHANGED DEFAULT_CONFIG
          ELSE LET config == [r.config EXCEPT !.targets = Append(@, target)]
               IN  /\ Len(r.config.targets) < MaxTargets
                   /\ fs' = writeConfig(r.fs, config)
                   /\ DEFAULT_CONFIG' = IF r.shared THEN config ELSE DEFAULT_CONFIG
                   /\ op' = Call("addTarget", target, Void)

RemoveTarget(name) ==
    /\ before' = ConfigFile(fs)
    /\ \E r \in readConfig(fs, DEFAULT_CONFIG) :
          LET index == findIndex(r.config.targets, name)
              config == [r.config EXCEPT !.targets = splice(@, index)]
          IN  IF r.threw
              THEN /\ fs' = r.fs
                   /\ op' = Call("removeTarget", name, Threw("mkdir"))
                   /\ UNCHANGED DEFAULT_CONFIG
              ELSE IF index = 0
              THEN /\ fs' = r.fs
                   /\ op' = Call("removeTarget", name, Null)
                   /\ UNCHANGED DEFAULT_CONFIG
              ELSE /\ fs' = writeConfig(r.fs, config)
                   /\ DEFAULT_CONFIG' = IF r.shared THEN config ELSE DEFAULT_CONFIG
                   /\ op' = Call("removeTarget", name, Returned(r.config.targets[index]))

\* the registry file is removed, or overwritten with text that is not JSON,
\* by something other than this process
DeleteConfig ==
    /\ ConfigFile(fs) # Absent
    /\ before' = ConfigFile(fs)
    /\ fs' = Put(fs, CONFIG_PATH, Missing)
    /\ op' = Call("external", NoArg, Void)
    /\ UNCHANGED DEFAULT_CONFIG

CorruptConfig ==
    /\ ConfigFile(fs) \notin {Absent, Corrupt}
    /\ before' = ConfigFile(fs)
    /\ fs' = Put(fs, CONFIG_PATH, File(Corrupt))
    /\ op' = Call("external", NoArg, Void)
    /\ UNCHANGED DEFAULT_CONFIG

\* the process ends and the next command starts: the module is loaded anew
NewProcess ==
    /\ DEFAULT_CONFIG # EmptyConfig
    /\ before' = ConfigFile(fs)
    /\ DEFAULT_CONFIG' = EmptyConfig
    /\ op' = Call("external", NoArg, Void)
    /\ UNCHANGED fs

NextRegistry ==
    \/ ReadConfig
    \/ \E config \in WriteInputs : WriteConfig(config)
    \/ \E source \in Sources : AddSource(source)
    \/ \E name \in {NameX, NameY} : RemoveSource(name)
    \/ \E target \in Targets : AddTarget(target)
    \/ \E name \in TargetNames : RemoveTarget(name)
    \/ DeleteConfig
    \/ CorruptConfig
    \/ NewProcess

SpecRegistry == InitRegistry /\ [][NextRegistry]_vars

(***************************** two invocations ******************************)
\* two processes of the tool run at the same time, each in addSource or in
\* addTarget; what a process holds is kept in op: its call, its place in the
\* function, the config object it read, how it ended, and whether the other
\* process had finished when it read
Procs == {1, 2}

\* the calls: addSource or addTarget of an entry
RaceCalls ==
    {[fn |-> "addSource", entry |-> s] : s \in {x \in Sources : x.type = "local"}}
    \cup {[fn |-> "addTarget", entry |-> [name |-> n, path |-> <<"/", "t", "1">>]] :
             n \in TargetNames}

\* the list of the config that a call works on
ListOf(call) == IF call.fn = "addSource" THEN "sources" ELSE "targets"

\* the registries the two processes can find
RaceConfigs ==
    {c \in Configs : Len(c.sources) + Len(c.targets) <= 1
                        /\ \A i \in DOMAIN c.sources : c.sources[i].type = "remote"}

InitRace ==
    /\ fs \in {EmptyDir} \cup {Installed(c) : c \in RaceConfigs}
    /\ DEFAULT_CONFIG = EmptyConfig
    /\ \E c1, c2 \in RaceCalls :
          /\ c1.fn = c2.fn => c1.entry.name # c2.entry.name
          /\ op = [name |-> "race", calls |-> <<c1, c2>>,
                   pc |-> <<"start", "start">>,
                   config |-> <<EmptyConfig, EmptyConfig>>,
                   ret |-> <<NoArg, NoArg>>,
                   readLate |-> <<FALSE, FALSE>>,
                   last |-> 0]
    /\ before = ConfigFile(fs)

\* const config = await readConfig()
RaceRead(p) ==
    /\ op.pc[p] = "start"
    /\ \E r \in readConfig(fs, EmptyConfig) :
          /\ fs' = r.fs
          /\ op' = [op EXCEPT !.pc[p] = IF r.threw THEN "done" ELSE "read",
                              !.config[p] = r.config,
                              !.ret[p] = IF r.threw THEN Threw("mkdir") ELSE NoArg,
                              !.readLate[p] = \E q \in Procs \ {p} : op.pc[q] = "done"]
    /\ UNCHANGED <<DEFAULT_CONFIG, before>>

\* a write that reads the registry again and adds the entry to what it finds
checkAndWrite_reread(tree, config, call) ==
    LET found == IF ConfigFile(tree).kind = "json" THEN JSONparse(ConfigFile(tree)) ELSE config
    IN  IF findIndex(found[ListOf(call)], call.entry.name) # 0
        THEN [fs |-> tree, ret |-> Threw("NameCollision")]
        ELSE [fs |-> writeConfig(tree, [found EXCEPT ![ListOf(call)] = Append(@, call.entry)]),
              ret |-> Void]

\* the rest of addSource and of addTarget: the check for the name in the
\* config that was read, push, writeConfig(config)
checkAndWrite(tree, config, call) ==
    IF findIndex(config[ListOf(call)], call.entry.name) # 0
    THEN [fs |-> tree, ret |-> Threw("NameCollision")]
    ELSE [fs |-> writeConfig(tree, [config EXCEPT ![ListOf(call)] = Append(@, call.entry)]),
          ret |-> Void]

RaceWrite(p) ==
    /\ op.pc[p] = "read"
    /\ ~ensureDirectoriesFails(fs)
    /\ LET r == checkAndWrite(fs, op.config[p], op.calls[p])
       IN  /\ fs' = r.fs
           /\ op' = [op EXCEPT !.pc[p] = "done", !.ret[p] = r.ret,
                               !.last = IF r.ret = Void THEN p ELSE @]
    /\ UNCHANGED <<DEFAULT_CONFIG, before>>

NextRace == \E p \in Procs : RaceRead(p) \/ RaceWrite(p)

SpecRace == InitRace /\ [][NextRace]_vars

(***************************** lib/hash.ts *********************************)
\* two spellings of one letter: the precomposed code point and the base
\* letter followed by a combining accent (canonically equivalent strings)
EAcuteNFC == "U+00E9"
EAcuteNFD == "U+0065 U+0301"

\* the collation classes of the tokens that occur in hashed paths, in
\* collation order; tokens of one class compare as equal
CollationOrder ==
    << {":"}, {".skills"}, {"/"}, {"|"}, {"1"}, {"2"}, {"3"}, {"4"}, {"a"}, {"b"},
       {"config.json"}, {EAcuteNFC, EAcuteNFD}, {"f"}, {"h"}, {"n"}, {"p"}, {"s"},
       {"SKILL.md"}, {"store"}, {"t"}, {"u"}, {"w"}, {"x"}, {"y"} >>

CollationKey(tok) == CHOOSE k \in DOMAIN CollationOrder : tok \in CollationOrder[k]

RECURSIVE localeCompare(_, _)
\* a.localeCompare(b): negative, 0 or positive; 0 also for two different
\* strings that are canonically equivalent
localeCompare(a, b) ==
    IF a = <<>> /\ b = <<>> THEN 0
    ELSE IF a = <<>> THEN -1
    ELSE IF b = <<>> THEN 1
    ELSE IF CollationKey(Head(a)) < CollationKey(Head(b)) THEN -1
    ELSE IF CollationKey(Head(a)) > CollationKey(Head(b)) THEN 1
    ELSE localeCompare(Tail(a), Tail(b))

\* Bun.hash(content).toString(16) of a file's bytes: a hexadecimal numeral,
\* taken to be different for different contents
BunHashOfContent(content) ==
    IF content.kind = "text" THEN <<content.id>> ELSE <<"c">>

\* Bun.hash(combined).toString(16): a value that is not the word "empty",
\* taken to be different for different strings
BunHashOfString(str) == [tag |-> "hex", of |-> str]

EmptySentinel == [tag |-> "empty"]

Orders(S) ==
    {q \in [1..Cardinality(S) -> S] : \A i, j \in DOMAIN q : i # j => q[i] # q[j]}

RECURSIVE getDirectoryFiles(_, _)
RECURSIVE FilesOfEntries(_, _, _)
\* the loop over the entries in the order readdir gave them: the possible
\* contents of the Map, as lists of <<path, hash>> in insertion order
FilesOfEntries(entries, order, basePath) ==
    IF order = <<>> THEN {<<>>}
    ELSE LET name == Head(order)
             entry == entries[name]
             relativePath == IF basePath # <<>> THEN basePath \o <<Slash>> \o name
                             ELSE name
             first == IF IsDir(entry) THEN getDirectoryFiles(entry, relativePath)
                      ELSE IF IsFile(entry)
                      THEN {<< <<relativePath, BunHashOfContent(entry.content)>> >>}
                      ELSE {<<>>}
         IN  {f \o r : f \in first, r \in FilesOfEntries(entries, Tail(order), basePath)}

\* getDirectoryFiles(dirPath, basePath): readdir may list the entries in any
\* order; a path that is not a directory makes readdir throw into the catch
getDirectoryFiles(node, basePath) ==
    IF ~IsDir(node) THEN {<<>>}
    ELSE UNION {FilesOfEntries(node.entries, order, basePath) :
                   order \in Orders(DOMAIN node.entries)}

RECURSIVE InsertSorted(_, _)
\* e placed after every element that does not compare greater than it
InsertSorted(sorted, e) ==
    IF sorted = <<>> THEN <<e>>
    ELSE IF localeCompare(Last(sorted)[1], e[1]) <= 0 THEN Append(sorted, e)
    ELSE Append(InsertSorted(SubSeq(sorted, 1, Len(sorted) - 1), e), Last(sorted))

RECURSIVE SortFrom(_, _)
SortFrom(sorted, rest) ==
    IF rest = <<>> THEN sorted
    ELSE SortFrom(InsertSorted(sorted, Head(rest)), Tail(rest))

\* Array.from(files.entries()).sort((a, b) => a[0].localeCompare(b[0])): stable
sortedEntries(files) == SortFrom(<<>>, files)

RECURSIVE joinEntries(_)
\* sortedEntries.map(([path, hash]) => `${path}:${hash}`).join("|")
joinEntries(entries) ==
    IF entries = <<>> THEN <<>>
    ELSE LET pair == Head(entries)[1] \o <<":">> \o Head(entries)[2]
         IN  IF Len(entries) = 1 THEN pair
             ELSE pair \o <<"|">> \o joinEntries(Tail(entries))

\* hashDirectory answering "empty" only when the directory lists no entry
hashDirectory_emptyIfNoEntries(node) ==
    {IF ~IsDir(node) \/ DOMAIN node.entries = {} THEN EmptySentinel
     ELSE BunHashOfString(joinEntries(sortedEntries(files))) :
        files \in getDirectoryFiles(node, <<>>)}

\* hashDirectory(dirPath): the results the enumeration orders allow
hashDirectory(node) ==
    {IF files = <<>> THEN EmptySentinel
     ELSE BunHashOfString(joinEntries(sortedEntries(files))) :
        files \in getDirectoryFiles(node, <<>>)}

\* compareDirectories(source, target): the possible [status, sourceHash, targetHash]
NotComputed == [tag |-> "none"]

\* compareDirectories without the check that the target exists
compareDirectories_noTargetCheck(tree, source, target) ==
    {[status |-> IF sourceHash = targetHash THEN "synced" ELSE "not synced",
      sourceHash |-> sourceHash, targetHash |-> targetHash] :
        sourceHash \in hashDirectory(Lookup(tree, source)),
        targetHash \in hashDirectory(Lookup(tree, target))}

compareDirectories(tree, source, target) ==
    IF ~directoryExists(tree, target)
    THEN {[status |-> "target missing", sourceHash |-> NotComputed,
           targetHash |-> NotComputed]}
    ELSE {[status |-> IF sourceHash = targetHash THEN "synced" ELSE "not synced",
           sourceHash |-> sourceHash, targetHash |-> targetHash] :
             sourceHash \in hashDirectory(Lookup(tree, source)),
             targetHash \in hashDirectory(Lookup(tree, target))}

(***************************** hashed inputs *******************************)
NumContents == 2     \* how many different file contents there are

Text(i) == [kind |-> "text", id |-> ToString(i)]

\* file names: a plain one, the two spellings of one accented letter, and one
\* made of a name, ':', a content hash, '|' and a name
FileNames ==
    { <<"a">>, <<EAcuteNFC>>, <<EAcuteNFD>>, <<"a", ":", "1", "|", EAcuteNFC>> }

\* what a directory entry can be: a file, an empty directory, a directory
\* holding one file or one empty directory
Entries ==
    {File(Text(i)) : i \in 1..NumContents}
        \cup {EmptyDir, Dir(<<"a">> :> File(Text(1))), Dir(<<"a">> :> EmptyDir)}

\* directories of at most two entries
Trees ==
    {Dir(e) : e \in UNION {[S -> Entries] :
                    S \in {T \in SUBSET FileNames : Cardinality(T) <= 2}}}

SourceDir == << <<"s">> >>
TargetDir == << <<"t">> >>

\* a path is missing, a regular file or a directory
InitHash ==
    /\ \E d1 \in Trees \cup {Missing}, d2 \in Trees \cup {Missing, File(Text(1))} :
           fs = Put(Put(EmptyDir, SourceDir, d1), TargetDir, d2)
    /\ DEFAULT_CONFIG = EmptyConfig
    /\ op = NoCall
    /\ before = Absent

HashDirectory(dirPath) ==
    /\ \E h \in hashDirectory(Lookup(fs, dirPath)) :
           op' = Call("hashDirectory", dirPath, Returned(h))
    /\ UNCHANGED <<fs, DEFAULT_CONFIG, before>>

CompareDirectories(source, target) ==
    /\ \E r \in compareDirectories(fs, source, target) :
           op' = Call("compareDirectories", <<source, target>>, Returned(r))
    /\ UNCHANGED <<fs, DEFAULT_CONFIG, before>>

NextHash ==
    \/ \E dirPath \in {SourceDir, TargetDir} : HashDirectory(dirPath)
    \/ CompareDirectories(SourceDir, TargetDir)

SpecHash == InitHash /\ [][NextHash]_vars

(***************************** commands/sync.ts ****************************)
NonEmpty(segment) == segment # <<>>

\* the components of an absolute path string
PathOf(str) == SelectSeq(Split(str), NonEmpty)

IsPrefix(p, q) == Len(p) <= Len(q) /\ SubSeq(q, 1, Len(p)) = p

RECURSIVE cpMerge(_, _)
\* what dest holds after a recursive copy of src over it
cpMerge(src, dest) ==
    IF ~IsDir(src) THEN src
    ELSE LET old == IF IsDir(dest) THEN dest.entries ELSE <<>>
         IN  Dir([n \in DOMAIN src.entries \cup DOMAIN old |->
                     IF n \in DOMAIN src.entries
                     THEN cpMerge(src.entries[n],
                                  IF n \in DOMAIN old THEN old[n] ELSE Missing)
                     ELSE old[n]])

\* cp(src, dest, {recursive: true}) rejects a missing src and a dest that is
\* src or lies inside it
cpFails(tree, src, dest) ==
    \/ Lookup(tree, src) = Missing
    \/ IsPrefix(src, dest)
    \/ MkdirFails(tree, dest)

cp(tree, src, dest) == Put(tree, dest, cpMerge(Lookup(tree, src), Lookup(tree, dest)))

\* the loop that removes nothing
removeChildren_none(tree, path) == tree

\* for (const file of existingFiles) rm(`${target.path}/${file}`, {recursive, force})
removeChildren(tree, path) ==
    IF IsDir(Lookup(tree, path)) THEN Put(tree, path, EmptyDir) ELSE tree

\* syncToTarget(target): the file system it leaves and how it ends
syncToTarget(tree, target) ==
    LET path == PathOf(target.path)
        made == MkdirP(tree, path)
        cleared == removeChildren(made, path)
    IN  IF MkdirFails(tree, path) THEN [fs |-> tree, ret |-> Threw("mkdir")]
        ELSE IF ~directoryExists(made, SKILLS_STORE) THEN [fs |-> made, ret |-> Void]
        ELSE IF cpFails(cleared, SKILLS_STORE, path)
        THEN [fs |-> cleared, ret |-> Threw("cp")]
        ELSE [fs |-> cp(cleared, SKILLS_STORE, path), ret |-> Void]

(***************************** mirrored inputs *****************************)
\* a target outside the store, one inside it and one that holds it
SyncTargets ==
    { [name |-> <<"t">>, path |-> <<"/", "t">>],
      [name |-> <<"x">>, path |-> <<"/", ".skills", "/", "store", "/", "a">>],
      [name |-> <<"y">>, path |-> <<"/", ".skills">>] }

\* what the store holds, and what is found at the target path
StoreTrees == {d \in Trees : \A n \in DOMAIN d.entries : Len(n) = 1}
TargetTrees == {d \in Trees : Cardinality(DOMAIN d.entries) <= 1}

\* syncToTarget runs after addTarget() or getTargets(), whose readConfig has
\* created the store; the target path is missing, a file or a directory
InitSync ==
    /\ \E store \in StoreTrees, t \in TargetTrees \cup {Missing, File(Text(1))} :
           fs = Put(Put(ensureDirectories(EmptyDir), SKILLS_STORE, store), TargetDir, t)
    /\ DEFAULT_CONFIG = EmptyConfig
    /\ op = NoCall
    /\ before = Absent

SyncToTarget(target) ==
    /\ fs' = syncToTarget(fs, target).fs
    /\ op' = Call("syncToTarget", target, syncToTarget(fs, target).ret)
    /\ UNCHANGED <<DEFAULT_CONFIG, before>>

NextSync ==
    \/ \E target \in SyncTargets : SyncToTarget(target)
    \/ \E target \in SyncTargets : CompareDirectories(SKILLS_STORE, PathOf(target.path))

SpecSync == InitSync /\ [][NextSync]_vars

RECURSIVE FilesUnder(_, _)
\* the regular files under a node: pairs of the path, as the list of its
\* names, and the content
FilesUnder(node, prefix) ==
    IF ~IsDir(node) THEN {}
    ELSE UNION {IF IsFile(node.entries[n])
                THEN {<<Append(prefix, n), node.entries[n].content>>}
                ELSE FilesUnder(node.entries[n], Append(prefix, n)) :
                   n \in DOMAIN node.entries}

(***************************** sync(): all targets **************************)
RECURSIVE removeSteps(_, _, _)
\* the file systems passed through while the loop removes the children of
\* path in the order readdir listed them
removeSteps(tree, path, order) ==
    IF order = <<>> THEN <<>>
    ELSE LET next == Put(tree, path \o <<Head(order)>>, Missing)
         IN  <<next>> \o removeSteps(next, path, Tail(order))

\* the file systems syncToTarget(target) passes through, from the one it
\* starts in to the one it leaves, for each order readdir can list
syncToTargetStates(tree, target) ==
    LET path == PathOf(target.path)
        made == MkdirP(tree, path)
        cleared == removeChildren(made, path)
    IN  IF MkdirFails(tree, path) THEN {<<tree>>}
        ELSE IF ~directoryExists(made, SKILLS_STORE) THEN {<<tree, made>>}
        ELSE {<<tree, made>> \o removeSteps(made, path, order)
                  \o (IF cpFails(cleared, SKILLS_STORE, path) THEN <<>>
                      ELSE <<cp(cleared, SKILLS_STORE, path)>>) :
                 order \in Orders(DOMAIN Lookup(made, path).entries)}

\* what one iteration of a batch leaves in the output: the item's name, how
\* its call ended (a throw is printed as "<name>: Failed - ..."), and the
\* file systems the call passed through
Attempt(item, ret, states) ==
    [name |-> item.name, item |-> item, ret |-> ret, states |-> states]

RECURSIVE syncLoop_noCatch(_, _, _)
\* the loop of sync() without its try/catch: the first failure ends it
syncLoop_noCatch(tree, targets, log) ==
    IF targets = <<>> THEN {[fs |-> tree, log |-> log, ret |-> Void]}
    ELSE LET r == syncToTarget(tree, Head(targets))
         IN  IF r.ret # Void THEN {[fs |-> r.fs, log |-> log, ret |-> r.ret]}
             ELSE UNION {syncLoop_noCatch(r.fs, Tail(targets),
                                          Append(log, Attempt(Head(targets), r.ret, st))) :
                            st \in syncToTargetStates(tree, Head(targets))}

RECURSIVE syncLoop(_, _, _)
\* for (const target of targets) { try { await syncToTarget(target) } catch ... }
syncLoop(tree, targets, log) ==
    IF targets = <<>> THEN {[fs |-> tree, log |-> log, ret |-> Void]}
    ELSE LET r == syncToTarget(tree, Head(targets))
         IN  UNION {syncLoop(r.fs, Tail(targets),
                             Append(log, Attempt(Head(targets), r.ret, st))) :
                       st \in syncToTargetStates(tree, Head(targets))}

\* config.targets / config.sources of readConfig()
getTargets(tree, dflt) == readConfig(tree, dflt)
getSources(tree, dflt) == readConfig(tree, dflt)

\* sync() with the loop that has no try/catch
sync_noCatch(tree, dflt) ==
    UNION {IF g.threw THEN {[fs |-> g.fs, log |-> <<>>, ret |-> Threw("mkdir")]}
           ELSE IF Len(g.config.targets) = 0 \/ ~directoryExists(g.fs, SKILLS_STORE)
           THEN {[fs |-> g.fs, log |-> <<>>, ret |-> Void]}
           ELSE syncLoop_noCatch(g.fs, g.config.targets, <<>>) :
              g \in getTargets(tree, dflt)}

\* sync(): the outcomes [fs, log, ret]
sync(tree, dflt) ==
    UNION {IF g.threw THEN {[fs |-> g.fs, log |-> <<>>, ret |-> Threw("mkdir")]}
           ELSE IF Len(g.config.targets) = 0 \/ ~directoryExists(g.fs, SKILLS_STORE)
           THEN {[fs |-> g.fs, log |-> <<>>, ret |-> Void]}
           ELSE syncLoop(g.fs, g.config.targets, <<>>) :
              g \in getTargets(tree, dflt)}

(***************************** the mirror ***********************************)
TPath == <<"/", "t">>
FPath == <<"/", "f">>
NPath == <<"/", "t", "/", "n">>

\* registered targets: one outside the store, one inside the store, one that
\* holds the store, one whose path is a regular file, one inside /t, and a
\* second one at /t
MirrorTargets ==
    SyncTargets \cup { [name |-> <<"f">>, path |-> FPath],
                       [name |-> <<"n">>, path |-> NPath],
                       [name |-> <<"t2">>, path |-> TPath] }

\* the store: empty, one skill, one skill whose two files have names that
\* are two spellings of one letter
MirrorStores ==
    { EmptyDir,
      Dir(NameX :> Dir(<<"a">> :> File(Text(1)))),
      Dir(NameX :> Dir(<<EAcuteNFC>> :> File(Text(1)) @@ <<EAcuteNFD>> :> File(Text(1)))) }

\* the registry that goes with a store
MirrorSources(store) ==
    IF store = EmptyDir THEN <<>> ELSE <<[type |-> "local", path |-> P1, name |-> NameX]>>

UniqueTargetLists ==
    {q \in Lists(MirrorTargets, MaxTargets) : UniqueKeys(q)}

RECURSIVE ContentsOf(_)
\* the contents of the regular files in a tree
ContentsOf(node) ==
    IF IsFile(node) THEN {node.content}
    ELSE IF IsDir(node) THEN UNION {ContentsOf(node.entries[n]) : n \in DOMAIN node.entries}
    ELSE {}

\* since[p]: what is known of the mirror at target path p: "none" (never
\* synced), "synced", "changed" (a store file changed after the last sync),
\* "resynced" (synced again after such a change)
NoMirror == [t \in {PathOf(m.path) : m \in MirrorTargets} |-> "none"]

Since == IF "since" \in DOMAIN op THEN op.since ELSE NoMirror

AfterSync(since, log) ==
    [p \in DOMAIN since |->
        IF \E i \in DOMAIN log : PathOf(log[i].item.path) = p
        THEN LET i == CHOOSE j \in DOMAIN log :
                          /\ PathOf(log[j].item.path) = p
                          /\ \A k \in (j + 1)..Len(log) : PathOf(log[k].item.path) # p
             IN  IF log[i].ret # Void THEN "none"
                 ELSE IF since[p] \in {"changed", "resynced"} THEN "resynced"
                 ELSE "synced"
        ELSE since[p]]

AfterChange(since) ==
    [p \in DOMAIN since |-> IF since[p] \in {"synced", "resynced"} THEN "changed" ELSE since[p]]

\* an installation with registered targets; /t is missing or holds a file
\* the store does not have, /f is a regular file
InitMirror ==
    /\ \E store \in MirrorStores, ts \in UniqueTargetLists,
          t \in {Missing, Dir(<<"b">> :> File(Text(1)))} :
           fs = Put(Put(Put(Put(ensureDirectories(EmptyDir), SKILLS_STORE, store),
                            CONFIG_PATH,
                            File(JSONstringify([sources |-> MirrorSources(store),
                                                targets |-> ts]))),
                        PathOf(TPath), t),
                    PathOf(FPath), File(Text(1)))
    /\ DEFAULT_CONFIG = EmptyConfig
    /\ op = NoCall
    /\ before = ConfigFile(fs)

\* the command `skills sync`
Sync ==
    /\ before' = ConfigFile(fs)
    /\ \E r \in sync(fs, DEFAULT_CONFIG) :
          /\ fs' = r.fs
          /\ op' = Call("sync", NoArg, r.ret)
                      @@ [log |-> r.log, start |-> fs, was |-> Since,
                          since |-> AfterSync(Since, r.log)]
    /\ UNCHANGED DEFAULT_CONFIG

\* something other than the tool gives a file of the store a content that no
\* file has
ChangeStoreFile ==
    /\ before' = ConfigFile(fs)
    /\ \E f \in FilesUnder(Lookup(fs, SKILLS_STORE), <<>>), i \in 1..NumContents :
          /\ Text(i) \notin ContentsOf(fs)
          /\ fs' = Put(fs, SKILLS_STORE \o f[1], File(Text(i)))
          /\ op' = Call("external", f[1], Void) @@ [since |-> AfterChange(Since)]
    /\ UNCHANGED DEFAULT_CONFIG

\* the status `skills target list` shows for a target
TargetStatus(target) ==
    /\ \E r \in compareDirectories(fs, SKILLS_STORE, PathOf(target.path)) :
           op' = Call("compareDirectories", <<SKILLS_STORE, PathOf(target.path)>>, Returned(r))
                     @@ [since |-> Since]
    /\ UNCHANGED <<fs, DEFAULT_CONFIG, before>>

(***************************** lib/paths.ts: skills *************************)
\* join(SKILLS_STORE, name)
getSkillPath(name) == SKILLS_STORE \o <<name>>

Join(segments) ==
    LET RECURSIVE J(_)
        J(q) == IF q = <<>> THEN <<>>
                ELSE IF Len(q) = 1 THEN q[1]
                ELSE q[1] \o <<Slash>> \o J(Tail(q))
    IN  J(segments)

NoMatch == [matched |-> FALSE]

\* the part of a segment that [^\/\.\s]+ matches: what comes before the
\* first dot or blank (the tokens of a URL that hold one begin with it)
BeforeDot(segment) ==
    LET stops == {i \in DOMAIN segment : segment[i] \in {".git", " "}}
    IN  IF stops = {} THEN segment
        ELSE SubSeq(segment, 1, (CHOOSE i \in stops : \A j \in stops : i <= j) - 1)

\* repo.replace(/\.git$/, ""): one trailing ".git" less
StripGit(repo) ==
    IF repo # <<>> /\ Last(repo) = ".git" THEN SubSeq(repo, 1, Len(repo) - 1) ELSE repo

\* subdir.replace(/\/$/, "")
StripSlash(subdir) ==
    IF subdir # <<>> /\ Last(subdir) = Slash THEN SubSeq(subdir, 1, Len(subdir) - 1)
    ELSE subdir

\* url.endsWith(".git")
EndsWithGit(url) == url # <<>> /\ Last(url) = ".git"

Least(S) == CHOOSE i \in S : \A j \in S : i <= j

\* the segments at which /host\/([^\/]+)\/([^\/]+)\/marker\/([^\/]+)\/(.+)/
\* matches; seg[k] ends in host
SubdirAt(seg, host, marker) ==
    {k \in DOMAIN seg :
        /\ seg[k] # <<>> /\ Last(seg[k]) = host
        /\ k + 4 + Len(marker) <= Len(seg)
        /\ seg[k + 1] # <<>>
        /\ seg[k + 2] # <<>>
        /\ SubSeq(seg, k + 3, k + 2 + Len(marker)) = marker
        /\ seg[k + 3 + Len(marker)] # <<>>
        /\ Join(SubSeq(seg, k + 4 + Len(marker), Len(seg))) # <<>>}

\* the segments at which /host\/([^\/]+)\/([^\/\.\s]+)/ matches
BasicAt(seg, host) ==
    {k \in DOMAIN seg :
        /\ seg[k] # <<>> /\ Last(seg[k]) = host
        /\ k + 2 <= Len(seg)
        /\ seg[k + 1] # <<>>
        /\ BeforeDot(seg[k + 2]) # <<>>}

\* the run of tokens of url from position i up to the first token stop
RunTo(url, i, stop) ==
    LET at == {j \in i..Len(url) : url[j] = stop}
    IN  IF at = {} THEN SubSeq(url, i, Len(url)) ELSE SubSeq(url, i, Least(at) - 1)

\* what (.+?)(?:\.git)?$ captures of the rest of the string
LazyRepo(rest) ==
    IF Len(rest) > 1 /\ Last(rest) = ".git" THEN SubSeq(rest, 1, Len(rest) - 1) ELSE rest

\* the positions at which /git@([^:]+):([^\/]+)\/(.+?)(?:\.git)?$/ matches
SshAt(url) ==
    {i \in DOMAIN url :
        /\ url[i] = "git@"
        /\ LET host == RunTo(url, i + 1, ":")
               owner == RunTo(url, i + Len(host) + 2, Slash)
           IN  /\ host # <<>>
               /\ i + Len(host) + 1 <= Len(url)
               /\ owner # <<>>
               /\ i + Len(host) + Len(owner) + 2 < Len(url)}

\* host, owner and repo of the SSH match at position i
SshParts(url, i) ==
    LET host == RunTo(url, i + 1, ":")
        owner == RunTo(url, i + Len(host) + 2, Slash)
        rest == SubSeq(url, i + Len(host) + Len(owner) + 3, Len(url))
    IN  [host |-> host, owner |-> owner, repo |-> StripGit(LazyRepo(rest))]

\* the three matchers of a hosting service, in their order: the
\* subdirectory form, plain HTTPS, SSH
parseHostUrl(url, host, markers) ==
    LET seg == Split(url)
        subdir == UNION {SubdirAt(seg, host, m) : m \in markers}
        basic == BasicAt(seg, host)
        ssh == {i \in SshAt(url) : SshParts(url, i).host = <<host>>}
        https(owner, repo) ==
            <<"https:", Slash, Slash, host, Slash>> \o owner \o <<Slash>> \o repo \o <<".git">>
    IN  IF subdir # {}
        THEN LET k == Least(subdir)
                 m == CHOOSE n \in markers : k \in SubdirAt(seg, host, n)
             IN  [matched |-> TRUE, host |-> <<host>>, owner |-> seg[k + 1],
                  repo |-> StripGit(seg[k + 2]),
                  branch |-> seg[k + 3 + Len(m)],
                  subdir |-> StripSlash(Join(SubSeq(seg, k + 4 + Len(m), Len(seg)))),
                  cloneUrl |-> https(seg[k + 1], StripGit(seg[k + 2]))]
        ELSE IF basic # {}
        THEN LET k == Least(basic)
             IN  [matched |-> TRUE, host |-> <<host>>, owner |-> seg[k + 1],
                  repo |-> StripGit(BeforeDot(seg[k + 2])),
                  cloneUrl |-> https(seg[k + 1], StripGit(BeforeDot(seg[k + 2])))]
        ELSE IF ssh # {}
        THEN LET parts == SshParts(url, Least(ssh))
             IN  [matched |-> TRUE, host |-> <<host>>, owner |-> parts.owner,
                  repo |-> parts.repo,
                  cloneUrl |-> <<"git@", host, ":">> \o parts.owner \o <<Slash>>
                                   \o parts.repo \o <<".git">>]
        ELSE NoMatch

\* parseGitHubUrl: /tree/ or /blob/ subdirectory, HTTPS, SSH
parseGitHubUrl(url) ==
    parseHostUrl(url, "github.com", { << <<"tree">> >>, << <<"blob">> >> })

\* parseGitLabUrl: /-/tree/ subdirectory, HTTPS, SSH
parseGitLabUrl(url) ==
    parseHostUrl(url, "gitlab.com", { << <<"-">>, <<"tree">> >> })

\* parseBitbucketUrl: /src/ subdirectory, HTTPS, SSH
parseBitbucketUrl(url) ==
    parseHostUrl(url, "bitbucket.org", { << <<"src">> >> })

\* the segments at which /https?:\/\/([^\/]+)\/([^\/]+)\/([^\/\.\s]+)/ matches
HttpsAt(seg) ==
    {k \in DOMAIN seg :
        /\ seg[k] # <<>> /\ Last(seg[k]) \in {"https:", "http:"}
        /\ k + 4 <= Len(seg)
        /\ seg[k + 1] = <<>>
        /\ seg[k + 2] # <<>>
        /\ seg[k + 3] # <<>>
        /\ BeforeDot(seg[k + 4]) # <<>>}

\* parseGenericGitUrl: git@host:owner/repo, then http(s)://host/owner/repo
parseGenericGitUrl(url) ==
    LET seg == Split(url)
        cloneUrl == IF EndsWithGit(url) THEN url ELSE url \o <<".git">>
    IN  IF SshAt(url) # {}
        THEN LET parts == SshParts(url, Least(SshAt(url)))
             IN  [matched |-> TRUE, host |-> parts.host, owner |-> parts.owner,
                  repo |-> parts.repo, cloneUrl |-> cloneUrl]
        ELSE IF HttpsAt(seg) # {}
        THEN LET k == Least(HttpsAt(seg))
             IN  [matched |-> TRUE, host |-> seg[k + 2], owner |-> seg[k + 3],
                  repo |-> StripGit(BeforeDot(seg[k + 4])), cloneUrl |-> cloneUrl]
        ELSE NoMatch

\* a parser that leaves the ".git" of a repository name in place
parseGitUrl_keepGit(url) ==
    LET parsed == IF parseGitHubUrl(url).matched THEN parseGitHubUrl(url)
                  ELSE IF parseGitLabUrl(url).matched THEN parseGitLabUrl(url)
                  ELSE IF parseBitbucketUrl(url).matched THEN parseBitbucketUrl(url)
                  ELSE parseGenericGitUrl(url)
    IN  IF parsed.matched /\ EndsWithGit(url)
        THEN [parsed EXCEPT !.repo = @ \o <<".git">>]
        ELSE parsed

\* parseGitUrl(url): the first parser that matches
parseGitUrl(url) ==
    IF parseGitHubUrl(url).matched THEN parseGitHubUrl(url)
    ELSE IF parseGitLabUrl(url).matched THEN parseGitLabUrl(url)
    ELSE IF parseBitbucketUrl(url).matched THEN parseBitbucketUrl(url)
    ELSE parseGenericGitUrl(url)

\* the final segment of subdir when there is one, else the repo name
getDefaultSkillName(parsed) ==
    IF Truthy(parsed, "subdir") THEN Last(Split(parsed.subdir)) ELSE parsed.repo

\* the final segment of the folder path
getLocalSkillName(folderPath) ==
    LET parts == PathOf(folderPath)
    IN  IF parts = <<>> THEN <<"unnamed">> ELSE Last(parts)

(***************************** URLs *****************************************)
Schemes == { <<"https:", Slash, Slash>>, <<"http:", Slash, Slash>>, <<"ftp:", Slash, Slash>>, <<>> }
Hosts == {"github.com", "gitlab.com", "bitbucket.org", "example.com"}
Repos == { <<"repo">>, <<"repo", ".git">>, <<"repo", ".git", ".git">> }
Branches == { <<"main">> }
Subdirs == { <<"x">>, <<"s", Slash, "x">>, <<"x", Slash>> }

\* what follows the repository in a URL: nothing, a separator, a
\* subdirectory as each hosting service writes it, a branch without a path
Tails ==
    { <<>>, <<Slash>> }
    \cup {<<Slash, "tree", Slash>> \o b : b \in Branches}
    \cup {<<Slash>> \o m \o <<Slash>> \o b \o <<Slash>> \o d :
             m \in { <<"tree">>, <<"blob">>, <<"-", Slash, "tree">>, <<"src">> },
             b \in Branches, d \in Subdirs}

WebUrl(scheme, host, repo, tail) ==
    scheme \o <<host, Slash, "owner", Slash>> \o repo \o tail

SshUrl(host, repo) == <<"git@", host, ":", "owner", Slash>> \o repo

\* the strings handed to parseGitUrl
Urls ==
    {WebUrl(sc, h, r, t) : sc \in Schemes, h \in Hosts, r \in Repos, t \in Tails}
    \cup {SshUrl(h, r) : h \in Hosts, r \in Repos}
    \cup { <<"not-a-url">>, <<>>, <<"ftp:", Slash, Slash, "example.com">> }

InitParse ==
    /\ fs = EmptyDir
    /\ DEFAULT_CONFIG = EmptyConfig
    /\ op = NoCall
    /\ before = ConfigFile(fs)

ParseGitUrl(url) ==
    /\ op' = Call("parseGitUrl", url, parseGitUrl(url))
    /\ UNCHANGED <<fs, DEFAULT_CONFIG, before>>

NextParse == \E url \in Urls : ParseGitUrl(url)

SpecParse == InitParse /\ [][NextParse]_vars

(***************************** git and ingestion ****************************)
\* rm(path, {recursive: true, force: true})
rmRf(tree, path) == IF Lookup(tree, path) = Missing THEN tree ELSE Put(tree, path, Missing)

\* `${targetPath}_temp`
TempPath(targetPath) ==
    SubSeq(targetPath, 1, Len(targetPath) - 1) \o <<Last(targetPath) \o <<"_temp">>>>

SkillFile == File(Text(1))
GitDir == <<".git">> :> EmptyDir

\* what the remote repository holds when it is cloned: with the
\* subdirectory s/x or without it
Worktrees ==
    { <<"SKILL.md">> :> SkillFile,
      <<"SKILL.md">> :> SkillFile @@ <<"s">> :> Dir(NameX :> SkillFolder) }

\* git clone ... dest: git refuses a destination that is a file or a
\* directory with entries; a clone that fails leaves nothing or, when git is
\* killed before it cleans up, the directory it had begun
gitClone(tree, dest, checkout) ==
    LET d == Lookup(tree, dest)
    IN  IF IsFile(d) \/ (IsDir(d) /\ DOMAIN d.entries # {})
        THEN {[ok |-> FALSE, fs |-> tree]}
        ELSE {[ok |-> TRUE, fs |-> Put(tree, dest, Dir(IF checkout THEN GitDir @@ w ELSE GitDir)),
               worktree |-> w] : w \in Worktrees}
             \cup {[ok |-> FALSE, fs |-> tree], [ok |-> FALSE, fs |-> Put(tree, dest, Dir(GitDir))]}

\* git -C tempPath sparse-checkout init, set subdir, checkout: they fail, or
\* the top directory of subdir appears in tempPath when the remote has it
gitSparseCheckout(tree, tempPath, subdir, worktree) ==
    LET top == Head(PathOf(subdir))
    IN  {[ok |-> FALSE, fs |-> tree],
         [ok |-> TRUE,
          fs |-> IF top \in DOMAIN worktree
                 THEN Put(tree, tempPath \o <<top>>, worktree[top]) ELSE tree]}

\* the body of the try block of addRemoteSource and of updateRemoteSource:
\* the outcomes [ok, fs]
cloneInto(tree, parsed, targetPath) ==
    IF Truthy(parsed, "subdir")
    THEN LET tempPath == TempPath(targetPath)
             subdirFullPath == tempPath \o PathOf(parsed.subdir)
         IN  UNION {IF ~c.ok THEN {[ok |-> FALSE, fs |-> c.fs]}
                    ELSE {IF ~k.ok \/ cpFails(k.fs, subdirFullPath, targetPath)
                          THEN [ok |-> FALSE, fs |-> k.fs]
                          ELSE [ok |-> TRUE,
                                fs |-> rmRf(cp(k.fs, subdirFullPath, targetPath), tempPath)] :
                             k \in gitSparseCheckout(c.fs, tempPath, parsed.subdir, c.worktree)} :
                      c \in gitClone(tree, tempPath, FALSE)}
    ELSE {IF ~c.ok THEN [ok |-> FALSE, fs |-> c.fs]
          ELSE [ok |-> TRUE, fs |-> rmRf(c.fs, targetPath \o << <<".git">> >>)] :
             c \in gitClone(tree, targetPath, TRUE)}

\* addSource(source): the outcomes [fs, ret]
addSource(tree, dflt, source) ==
    {IF r.threw THEN [fs |-> r.fs, ret |-> Threw("mkdir")]
     ELSE IF findIndex(r.config.sources, source.name) # 0
     THEN [fs |-> r.fs, ret |-> Threw("NameCollision")]
     ELSE [fs |-> writeConfig(r.fs, [r.config EXCEPT !.sources = Append(@, source)]),
           ret |-> Void] :
        r \in readConfig(tree, dflt)}

\* removeSource(name): the outcomes [fs, ret]
removeSource(tree, dflt, name) ==
    {LET index == findIndex(r.config.sources, name)
     IN  IF r.threw THEN [fs |-> r.fs, ret |-> Threw("mkdir")]
         ELSE IF index = 0 THEN [fs |-> r.fs, ret |-> Null]
         ELSE [fs |-> writeConfig(r.fs, [r.config EXCEPT !.sources = splice(@, index)]),
               ret |-> Returned(r.config.sources[index])] :
        r \in readConfig(tree, dflt)}

\* addTarget(target): the outcomes [fs, ret]
addTarget(tree, dflt, target) ==
    {IF r.threw THEN [fs |-> r.fs, ret |-> Threw("mkdir")]
     ELSE IF findIndex(r.config.targets, target.name) # 0
     THEN [fs |-> r.fs, ret |-> Threw("NameCollision")]
     ELSE [fs |-> writeConfig(r.fs, [r.config EXCEPT !.targets = Append(@, target)]),
           ret |-> Void] :
        r \in readConfig(tree, dflt)}

\* a command's outcome: the file system it leaves, how it ends, and whether
\* it started a git subprocess
Outcome(tree, ret, git) == [fs |-> tree, ret |-> ret, git |-> git]

NoName == <<>>

\* addRemoteSource(url, customName)
addRemoteSource(tree, dflt, url, customName) ==
    LET parsed == parseGitUrl(url)
        skillName == IF customName # NoName THEN customName ELSE getDefaultSkillName(parsed)
        targetPath == getSkillPath(skillName)
    IN  IF ~parsed.matched THEN {Outcome(tree, Threw("InvalidGitUrl"), FALSE)}
        ELSE IF directoryExists(tree, targetPath)
        THEN {Outcome(tree, Threw("AlreadyExists"), FALSE)}
        ELSE UNION {IF ~c.ok
                    THEN {Outcome(rmRf(rmRf(c.fs, targetPath), TempPath(targetPath)),
                                  Threw("CloneFailure"), TRUE)}
                    ELSE {Outcome(a.fs, a.ret, TRUE) :
                             a \in addSource(c.fs, dflt,
                                             [type |-> "remote", url |-> url, name |-> skillName])} :
                      c \in cloneInto(tree, parsed, targetPath)}

\* addLocalSource(folderPath, customName), for an absolute folderPath
addLocalSource(tree, dflt, folderPath, customName) ==
    LET absolutePath == PathOf(folderPath)
        skillName == IF customName # NoName THEN customName ELSE getLocalSkillName(folderPath)
        targetPath == getSkillPath(skillName)
    IN  IF ~directoryExists(tree, absolutePath)
        THEN {Outcome(tree, Threw("SourceUnavailable"), FALSE)}
        ELSE IF directoryExists(tree, targetPath)
        THEN {Outcome(tree, Threw("AlreadyExists"), FALSE)}
        ELSE IF cpFails(tree, absolutePath, targetPath)
        THEN {Outcome(tree, Threw("cp"), FALSE)}
        ELSE {Outcome(a.fs, a.ret, FALSE) :
                 a \in addSource(cp(tree, absolutePath, targetPath), dflt,
                                 [type |-> "local", path |-> folderPath, name |-> skillName])}

\* sourceAdd(pathOrUrl, type, customName)
sourceAdd(tree, dflt, pathOrUrl, type, customName) ==
    IF type = "remote" THEN addRemoteSource(tree, dflt, pathOrUrl, customName)
    ELSE addLocalSource(tree, dflt, pathOrUrl, customName)

\* sourceRemove(name)
sourceRemove(tree, dflt, name) ==
    {IF r.ret = Null THEN Outcome(r.fs, Threw("NotFound"), FALSE)
     ELSE IF r.ret.tag = "throw" THEN Outcome(r.fs, r.ret, FALSE)
     ELSE Outcome(rmRf(r.fs, getSkillPath(name)), Void, FALSE) :
        r \in removeSource(tree, dflt, name)}

(***************************** commands/update.ts ***************************)
\* updateRemoteSource(name, url)
updateRemoteSource(tree, name, url) ==
    LET targetPath == getSkillPath(name)
        parsed == parseGitUrl(url)
    IN  IF ~parsed.matched THEN {Outcome(tree, Threw("InvalidGitUrl"), FALSE)}
        ELSE {IF ~c.ok THEN Outcome(rmRf(c.fs, TempPath(targetPath)), Threw("CloneFailure"), TRUE)
              ELSE Outcome(c.fs, Void, TRUE) :
                 c \in cloneInto(rmRf(tree, targetPath), parsed, targetPath)}

\* updateLocalSource removing the store folder before it looks for the source
updateLocalSource_deleteFirst(tree, name, sourcePath) ==
    LET targetPath == getSkillPath(name)
        removed == rmRf(tree, targetPath)
    IN  IF ~directoryExists(removed, PathOf(sourcePath))
        THEN {Outcome(removed, Threw("SourceUnavailable"), FALSE)}
        ELSE IF cpFails(removed, PathOf(sourcePath), targetPath)
        THEN {Outcome(removed, Threw("cp"), FALSE)}
        ELSE {Outcome(cp(removed, PathOf(sourcePath), targetPath), Void, FALSE)}

\* updateLocalSource(name, sourcePath)
updateLocalSource(tree, name, sourcePath) ==
    LET targetPath == getSkillPath(name)
        removed == rmRf(tree, targetPath)
    IN  IF ~directoryExists(tree, PathOf(sourcePath))
        THEN {Outcome(tree, Threw("SourceUnavailable"), FALSE)}
        ELSE IF cpFails(removed, PathOf(sourcePath), targetPath)
        THEN {Outcome(removed, Threw("cp"), FALSE)}
        ELSE {Outcome(cp(removed, PathOf(sourcePath), targetPath), Void, FALSE)}

\* the body of the loop of update(): the refresh of one source
refresh(tree, source) ==
    IF source.type = "remote" THEN updateRemoteSource(tree, source.name, source.url)
    ELSE updateLocalSource(tree, source.name, source.path)

RECURSIVE updateLoop_noCatch(_, _, _, _)
\* the loop of update() without its try/catch
updateLoop_noCatch(tree, sources, log, git) ==
    IF sources = <<>> THEN {Outcome(tree, Void, git) @@ [log |-> log]}
    ELSE UNION {IF r.ret # Void THEN {Outcome(r.fs, r.ret, git \/ r.git) @@ [log |-> log]}
                ELSE updateLoop_noCatch(r.fs, Tail(sources),
                                        Append(log, Attempt(Head(sources), r.ret, <<tree, r.fs>>)),
                                        git \/ r.git) :
                   r \in refresh(tree, Head(sources))}

RECURSIVE updateLoop_notAwaited(_, _, _, _)
\* a loop that starts the refresh of a source without waiting for the one
\* before it: each refresh starts in the file system the loop started in
updateLoop_notAwaited(tree, sources, log, git) ==
    IF sources = <<>> THEN {Outcome(tree, Void, git) @@ [log |-> log]}
    ELSE UNION {{[o EXCEPT !.fs = IF Len(sources) = 1 THEN r.fs ELSE @] :
                    o \in updateLoop_notAwaited(tree, Tail(sources),
                               Append(log, Attempt(Head(sources), r.ret, <<tree, r.fs>>)),
                               git \/ r.git)} :
                   r \in refresh(tree, Head(sources))}

RECURSIVE updateLoop(_, _, _, _)
\* for (const source of sources) { try { ... } catch ... }
updateLoop(tree, sources, log, git) ==
    IF sources = <<>> THEN {Outcome(tree, Void, git) @@ [log |-> log]}
    ELSE UNION {updateLoop(r.fs, Tail(sources),
                           Append(log, Attempt(Head(sources), r.ret, <<tree, r.fs>>)),
                           git \/ r.git) :
                   r \in refresh(tree, Head(sources))}

\* update() with the loop that has no try/catch
update_noCatch(tree, dflt) ==
    UNION {IF g.threw THEN {Outcome(g.fs, Threw("mkdir"), FALSE) @@ [log |-> <<>>]}
           ELSE IF Len(g.config.sources) = 0
           THEN {Outcome(g.fs, Void, FALSE) @@ [log |-> <<>>]}
           ELSE updateLoop_noCatch(g.fs, g.config.sources, <<>>, FALSE) :
              g \in getSources(tree, dflt)}

\* update(): the outcomes [fs, ret, git, log]
update(tree, dflt) ==
    UNION {IF g.threw THEN {Outcome(g.fs, Threw("mkdir"), FALSE) @@ [log |-> <<>>]}
           ELSE IF Len(g.config.sources) = 0
           THEN {Outcome(g.fs, Void, FALSE) @@ [log |-> <<>>]}
           ELSE updateLoop(g.fs, g.config.sources, <<>>, FALSE) :
              g \in getSources(tree, dflt)}

(***************************** commands/target.ts ***************************)
\* process.env.HOME: the directory that homedir() gives, SKILLS_ROOT's parent
HOME == <<Slash>>
CWD == <<"/", "w">>

\* path.replace(/^~/, process.env.HOME)
replaceTilde(path) ==
    IF path # <<>> /\ Head(path) = "~" THEN HOME \o Tail(path) ELSE path

RECURSIVE FromParts(_)
FromParts(parts) ==
    IF parts = <<>> THEN <<>> ELSE <<Slash>> \o Head(parts) \o FromParts(Tail(parts))

\* resolve(path): the absolute path, without empty segments or a trailing
\* separator; a relative path is taken from the working directory
resolve(path) ==
    LET full == IF path # <<>> /\ Head(path) = Slash THEN path ELSE CWD \o <<Slash>> \o path
    IN  IF PathOf(full) = <<>> THEN <<Slash>> ELSE FromParts(PathOf(full))

\* targetAdd that registers the target and leaves out the initial sync
targetAdd_noSync(tree, dflt, name, path) ==
    LET absolutePath == resolve(replaceTilde(path))
        target == [name |-> name, path |-> absolutePath]
    IN  IF MkdirFails(tree, PathOf(absolutePath)) THEN {Outcome(tree, Threw("mkdir"), FALSE)}
        ELSE {Outcome(a.fs, a.ret, FALSE) :
                 a \in addTarget(MkdirP(tree, PathOf(absolutePath)), dflt, target)}

\* targetAdd(name, path), with a path given
targetAdd(tree, dflt, name, path) ==
    LET absolutePath == resolve(replaceTilde(path))
        target == [name |-> name, path |-> absolutePath]
    IN  IF MkdirFails(tree, PathOf(absolutePath)) THEN {Outcome(tree, Threw("mkdir"), FALSE)}
        ELSE {IF a.ret # Void THEN Outcome(a.fs, a.ret, FALSE)
              ELSE Outcome(syncToTarget(a.fs, target).fs, syncToTarget(a.fs, target).ret, FALSE) :
                 a \in addTarget(MkdirP(tree, PathOf(absolutePath)), dflt, target)}

\* removeTarget(name): the outcomes [fs, ret]
removeTarget(tree, dflt, name) ==
    {LET index == findIndex(r.config.targets, name)
     IN  IF r.threw THEN [fs |-> r.fs, ret |-> Threw("mkdir")]
         ELSE IF index = 0 THEN [fs |-> r.fs, ret |-> Null]
         ELSE [fs |-> writeConfig(r.fs, [r.config EXCEPT !.targets = splice(@, index)]),
               ret |-> Returned(r.config.targets[index])] :
        r \in readConfig(tree, dflt)}

\* targetRemove that also deletes the directory of the target
targetRemove_deleteFiles(tree, dflt, name) ==
    {IF r.ret = Null THEN Outcome(r.fs, Threw("NotFound"), FALSE)
     ELSE IF r.ret.tag = "throw" THEN Outcome(r.fs, r.ret, FALSE)
     ELSE Outcome(rmRf(r.fs, PathOf(r.ret.value.path)), Void, FALSE) :
        r \in removeTarget(tree, dflt, name)}

\* targetRemove(name)
targetRemove(tree, dflt, name) ==
    {IF r.ret = Null THEN Outcome(r.fs, Threw("NotFound"), FALSE)
     ELSE IF r.ret.tag = "throw" THEN Outcome(r.fs, r.ret, FALSE)
     ELSE Outcome(r.fs, Void, FALSE) :
        r \in removeTarget(tree, dflt, name)}

(***************************** the commands *********************************)
UrlRepo == <<"https:", "/", "/", "github.com", "/", "o", "/", "x">>
UrlSub ==
    <<"https:", "/", "/", "github.com", "/", "o", "/", "r", "/", "tree", "/", "main",
      "/", "s", "/", "x">>
UrlBad == <<"not-a-url">>
UrlFtpRepo == <<"ftp:", "/", "/", "github.com", "/", "o", "/", "x">>
LocalX == <<"/", "p", "/", "x">>
XTemp == <<"x", "_temp">>

\* the arguments of `skills source add`: a repository, a subdirectory of
\* one, a string that is no URL, an ftp URL of a repository, and a local
\* folder under its own name or under another
AddInputs ==
    {[pathOrUrl |-> u, type |-> "remote", customName |-> NoName] :
        u \in {UrlRepo, UrlSub, UrlBad, UrlFtpRepo}}
    \cup {[pathOrUrl |-> LocalX, type |-> "local", customName |-> n] : n \in {NoName, XTemp}}

\* the arguments of `skills target add`: a path outside the store, one
\* inside it, and one that is a regular file
AddTargets ==
    { [name |-> <<"t">>, path |-> TPath],
      [name |-> <<"x">>, path |-> <<"/", ".skills", "/", "store", "/", "a">>],
      [name |-> <<"f">>, path |-> FPath] }

\* a first run: nothing installed, a local folder of skills, a regular file
InitCommands ==
    /\ fs = Put(Put(EmptyDir, PathOf(LocalX), SkillFolder), PathOf(FPath), File(Text(1)))
    /\ DEFAULT_CONFIG = EmptyConfig
    /\ op = NoCall
    /\ before = ConfigFile(fs)

\* a command of the CLI, run in a process of its own
Command(name, arg, outcomes) ==
    /\ before' = ConfigFile(fs)
    /\ \E r \in outcomes :
          /\ fs' = r.fs
          /\ op' = Call(name, arg, r.ret)
                      @@ [store |-> Lookup(fs, SKILLS_STORE), git |-> r.git,
                          log |-> IF "log" \in DOMAIN r THEN r.log ELSE <<>>,
                          since |-> IF name = "targetAdd"
                                    THEN AfterSync(Since, <<Attempt(arg, r.ret, <<fs>>)>>)
                                    ELSE Since]
    /\ UNCHANGED DEFAULT_CONFIG

SourceAdd(in) ==
    Command("sourceAdd", in, sourceAdd(fs, DEFAULT_CONFIG, in.pathOrUrl, in.type, in.customName))

SourceRemove(name) ==
    Command("sourceRemove", name, sourceRemove(fs, DEFAULT_CONFIG, name))

Update == Command("update", NoArg, update(fs, DEFAULT_CONFIG))

\* `skills target add`, as long as the registry stays within MaxTargets
TargetAdd(target) ==
    Command("targetAdd", target,
            {r \in targetAdd(fs, DEFAULT_CONFIG, target.name, target.path) :
                ConfigFile(r.fs).kind = "json" => Len(ConfigFile(r.fs).targets) <= MaxTargets})

\* `skills target remove`
TargetRemove(name) ==
    /\ before' = ConfigFile(fs)
    /\ \E r \in targetRemove(fs, DEFAULT_CONFIG, name) :
          /\ fs' = r.fs
          /\ op' = Call("targetRemove", name, r.ret) @@ [start |-> fs, since |-> Since]
    /\ UNCHANGED DEFAULT_CONFIG

\* the user deletes the local folder, or puts it back
LocalFolderChange ==
    /\ before' = ConfigFile(fs)
    /\ fs' = Put(fs, PathOf(LocalX),
                 IF directoryExists(fs, PathOf(LocalX)) THEN Missing ELSE SkillFolder)
    /\ op' = Call("external", NoArg, Void)
    /\ UNCHANGED DEFAULT_CONFIG

NextCommands ==
    \/ \E in \in AddInputs : SourceAdd(in)
    \/ \E name \in {NameX, XTemp} : SourceRemove(name)
    \/ Update
    \/ \E target \in AddTargets : TargetAdd(target)
    \/ LocalFolderChange

SpecCommands == InitCommands /\ [][NextCommands]_vars

\* the sources and the targets of an installation on which `skills sync` and
\* `skills update` run
BatchSources ==
    { [type |-> "remote", url |-> UrlRepo, name |-> NameX],
      [type |-> "remote", url |-> UrlSub, name |-> <<"s">>],
      [type |-> "local", path |-> LocalX, name |-> XTemp] }

BatchTargets ==
    { [name |-> <<"t">>, path |-> TPath],
      [name |-> <<"f">>, path |-> FPath] }

\* an installation: every registered source has its folder in the store
InitBatches ==
    /\ \E ss \in {q \in Lists(BatchSources, MaxSources) : UniqueKeys(q)},
          ts \in {q \in Lists(BatchTargets, MaxTargets) : UniqueKeys(q)} :
           fs = Put(Put(Put(StoreOf(ensureDirectories(EmptyDir), ss),
                            CONFIG_PATH, File(JSONstringify([sources |-> ss, targets |-> ts]))),
                        PathOf(LocalX), SkillFolder),
                    PathOf(FPath), File(Text(1)))
    /\ DEFAULT_CONFIG = EmptyConfig
    /\ op = NoCall
    /\ before = ConfigFile(fs)

NextBatches ==
    \/ Sync
    \/ Update

SpecBatches == InitBatches /\ [][NextBatches]_vars

\* what `skills target add` is given: a path with a trailing separator, a
\* path under the home directory, a path inside /t
MirrorAdds ==
    { [name |-> <<"t">>, path |-> TPath \o <<Slash>>],
      [name |-> <<"u">>, path |-> <<"~", Slash, "t">>],
      [name |-> <<"n">>, path |-> NPath] }

NextMirror ==
    \/ Sync
    \/ ChangeStoreFile
    \/ \E target \in MirrorTargets : TargetStatus(target)

SpecMirror == InitMirror /\ [][NextMirror]_vars

\* the registry of targets of such an installation, as `skills target add`
\* and `skills target remove` change it
NextTargets ==
    \/ \E target \in MirrorAdds : TargetAdd(target)
    \/ \E target \in MirrorTargets : TargetRemove(target.name)

SpecTargets == InitMirror /\ [][NextTargets]_vars

(***************************** registry claims ******************************)
Persisted == ConfigFile(fs)

UniqueNames(list) ==
    \A i, j \in DOMAIN list :
        (i # j /\ "name" \in DOMAIN list[i] /\ "name" \in DOMAIN list[j])
            => list[i].name # list[j].name

NameCount(list, name) == Cardinality({i \in DOMAIN list : HasName(list[i], name)})

\* the registry a document stands for: none for an absent or unreadable file,
\* and each namespace-keyed entry under the name its namespace ends in
Registry(doc) ==
    IF doc.kind = "json"
    THEN [sources |-> [i \in DOMAIN doc.sources |-> MigratedSource(doc.sources[i])],
          targets |-> doc.targets]
    ELSE EmptyConfig

\* C1: in every state of the persisted registry, whatever loads (with their
\* migration), addSource, removeSource, addTarget and removeTarget came before,
\* no two Sources have the same name and no two Targets have the same name.
C1_UniqueNames ==
    Persisted.kind = "json" =>
        UniqueNames(Persisted.sources) /\ UniqueNames(Persisted.targets)

\* C2: addSource with a name an existing Source has fails with NameCollision,
\* and afterwards the registry holds exactly one entry of that name and is
\* what it was before the call.
C2_AddSourceCollision ==
    (/\ op.name = "addSource"
     /\ before.kind = "json"
     /\ NameCount(before.sources, op.arg.name) > 0)
        => /\ op.ret = Threw("NameCollision")
           /\ Persisted.kind = "json"
           /\ NameCount(Persisted.sources, op.arg.name) = 1
           /\ Persisted = before

\* C3: removeSource and removeTarget of a name that is not registered return
\* null and leave the sources and targets of the persisted registry as they
\* were before the call.
C3_RemoveUnregistered ==
    /\ (op.name = "removeSource" /\ NameCount(Registry(before).sources, op.arg) = 0)
           => (op.ret = Null /\ Registry(Persisted) = Registry(before))
    /\ (op.name = "removeTarget" /\ NameCount(Registry(before).targets, op.arg) = 0)
           => (op.ret = Null /\ Registry(Persisted) = Registry(before))

C5_DefaultOnAbsentOrCorrupt ==
    (op.name = "readConfig" /\ before.kind \in {"absent", "corrupt"})
        => /\ op.ret = Returned(EmptyConfig)
           /\ Persisted = [kind |-> "json", sources |-> <<>>, targets |-> <<>>]

(***************************** fingerprint claims ***************************)
FileSet(path) == FilesUnder(Lookup(fs, path), <<>>)

Compared == op.name = "compareDirectories"
BothHashed == Compared /\ op.ret.value.status # "target missing"

C7_EqualIffSameFiles ==
    BothHashed =>
        (op.ret.value.sourceHash = op.ret.value.targetHash
            <=> FileSet(op.arg[1]) = FileSet(op.arg[2]))

\* C8: hashDirectory returns the sentinel 'empty' for a missing path and for
\* a directory with no regular file at any depth, and never for a directory
\* that holds a regular file.
C8_SentinelIffNoFiles ==
    op.name = "hashDirectory" =>
        (op.ret.value = EmptySentinel <=> FileSet(op.arg) = {})

\* a directory that has entries, none of them a regular file at any depth
C8_Witness ==
    /\ op.name = "hashDirectory"
    /\ IsDir(Lookup(fs, op.arg))
    /\ \E n \in DOMAIN Lookup(fs, op.arg).entries :
           IsDir(Lookup(fs, op.arg).entries[n]) /\ Lookup(fs, op.arg).entries[n] # EmptyDir
    /\ op.ret.value = EmptySentinel

\* C9: the fingerprint depends only on the set of (relative path, content)
\* pairs: another enumeration order of the entries, or empty subdirectories
\* added or removed, give the same result.
C9_OrderAndEmptyDirsIrrelevant ==
    (BothHashed /\ FileSet(op.arg[1]) = FileSet(op.arg[2]))
        => op.ret.value.sourceHash = op.ret.value.targetHash

(***************************** mirror claims ********************************)
\* C10: whenever syncToTarget(target) returns without error,
\* compareDirectories(store, target.path) evaluated right afterwards returns
\* 'synced', whatever the target held and whether it existed.
C10_SyncedAfterSync ==
    (/\ Compared
     /\ op.prev.name = "syncToTarget"
     /\ op.prev.ret = Void
     /\ op.arg = <<SKILLS_STORE, PathOf(op.prev.arg.path)>>)
        => op.ret.value.status = "synced"

Synced == op.name = "sync"

\* the entries of a directory, none for a path that is not one
ChildrenOf(tree, path) ==
    IF IsDir(Lookup(tree, path)) THEN Lookup(tree, path).entries ELSE <<>>

\* an attempt of a batch that got past its mkdir
Created(e) == e.ret # Threw("mkdir")

StoreContentAt(tree) == FilesUnder(Lookup(tree, SKILLS_STORE), <<>>)

\* C11: after a successful sync of a target and a change of the content of a
\* file in the store, compareDirectories(store, target.path) returns 'not
\* synced' until the next sync of that target completes, and 'synced' once it
\* has completed.
C11_StaleUntilResync ==
    /\ (Compared /\ "since" \in DOMAIN op /\ op.since[op.arg[2]] = "changed")
           => op.ret.value.status = "not synced"
    /\ Synced =>
           \A i \in DOMAIN op.log :
               (op.log[i].ret = Void /\ op.was[PathOf(op.log[i].item.path)] = "changed")
                   => \A r \in compareDirectories(Last(op.log[i].states), SKILLS_STORE,
                                                  PathOf(op.log[i].item.path)) :
                          r.status = "synced"

\* C12: syncToTarget with a store that holds nothing returns without error
\* and leaves every entry that target.path had as it was.
C12_EmptyStoreNoOp ==
    Synced =>
        \A i \in DOMAIN op.log :
            LET e == op.log[i]
                path == PathOf(e.item.path)
                was == ChildrenOf(e.states[1], path)
                is == ChildrenOf(Last(e.states), path)
            IN  (Created(e) /\ ChildrenOf(e.states[1], SKILLS_STORE) = <<>>)
                    => /\ e.ret = Void
                       /\ \A n \in DOMAIN was : n \in DOMAIN is /\ is[n] = was[n]

C14_SyncIsolatesFailures ==
    (Synced /\ before.kind = "json" /\ before.targets # <<>>)
        => /\ op.ret = Void
           /\ Len(op.log) = Len(before.targets)
           /\ \A i \in DOMAIN op.log :
                  /\ op.log[i].item = before.targets[i]
                  /\ op.log[i].name = before.targets[i].name
                  /\ op.log[i].ret = syncToTarget(op.log[i].states[1], before.targets[i]).ret

\* two targets, the first fails and the second is synced all the same
C14_Witness ==
    /\ Synced
    /\ Len(op.log) = 2
    /\ op.log[1].ret # Void
    /\ op.log[2].ret = Void
    /\ StoreContentAt(Last(op.log[2].states)) # {}
    /\ op.ret = Void

(***************************** command claims *******************************)
Updated == op.name = "update"
Failed(ret) == ret.tag = "throw"

\* C15: update() attempts the refresh once for each registered source,
\* whichever of them fail, and does not raise.
C15_UpdateIsolatesFailures ==
    (Updated /\ before.kind = "json" /\ before.sources # <<>>)
        => /\ op.ret = Void
           /\ Len(op.log) = Len(before.sources)
           /\ \A i \in DOMAIN op.log :
                  /\ op.log[i].item = before.sources[i]
                  /\ op.log[i].ret \in {r.ret : r \in refresh(op.log[i].states[1],
                                                               before.sources[i])}

\* two sources, the refresh of the first fails and the second is refreshed
C15_Witness ==
    /\ Updated
    /\ Len(op.log) = 2
    /\ Failed(op.log[1].ret)
    /\ op.log[2].ret = Void
    /\ op.ret = Void

\* C16: between commands, every Source of the registry has its directory
\* store/<name>, whatever sourceAdd, sourceRemove and update calls came
\* before, failed ones included.
C16_RegisteredSourceHasFolder ==
    Persisted.kind = "json" =>
        \A i \in DOMAIN Persisted.sources :
            directoryExists(fs, getSkillPath(Persisted.sources[i].name))

\* the store path of the name a sourceAdd chose
ChosenName(in) ==
    IF in.customName # NoName THEN in.customName
    ELSE IF in.type = "remote" THEN getDefaultSkillName(parseGitUrl(in.pathOrUrl))
    ELSE getLocalSkillName(in.pathOrUrl)

NeitherExists(tree, targetPath) ==
    Lookup(tree, targetPath) = Missing /\ Lookup(tree, TempPath(targetPath)) = Missing

\* C17: when a remote ingestion fails, in sourceAdd or in update, then as the
\* CloneFailure surfaces neither the source's store path nor the path
\* '<store path>_temp' exists.
C17_NothingLeftAfterCloneFailure ==
    /\ (op.name = "sourceAdd" /\ op.ret = Threw("CloneFailure"))
           => NeitherExists(fs, getSkillPath(ChosenName(op.arg)))
    /\ Updated =>
           \A i \in DOMAIN op.log :
               op.log[i].ret = Threw("CloneFailure")
                   => NeitherExists(op.log[i].states[2], getSkillPath(op.log[i].name))

\* C18: the update of a local source whose path is no directory any more
\* fails with SourceUnavailable and leaves the file system, store/<name> and
\* the registry with it, as it was.
C18_MissingLocalFolderDeletesNothing ==
    Updated =>
        \A i \in DOMAIN op.log :
            LET e == op.log[i]
            IN  (e.item.type = "local" /\ ~directoryExists(e.states[1], PathOf(e.item.path)))
                    => /\ e.ret = Threw("SourceUnavailable")
                       /\ e.states[2] = e.states[1]

\* the folder is gone while store/<name> holds its copy
C18_Witness ==
    /\ Updated
    /\ \E i \in DOMAIN op.log :
          LET e == op.log[i]
          IN  /\ e.item.type = "local"
              /\ ~directoryExists(e.states[1], PathOf(e.item.path))
              /\ Lookup(e.states[2], getSkillPath(e.name)) = SkillFolder
              /\ e.ret = Threw("SourceUnavailable")

\* what the store holds; nothing when there is no store directory yet
StoreEntries(node) == IF IsDir(node) THEN node.entries ELSE <<>>

StoreUnchanged == StoreEntries(Lookup(fs, SKILLS_STORE)) = StoreEntries(op.store)

\* C19: a sourceAdd or targetAdd that fails leaves the registry and the
\* store as they were before it.
C19_FailedAddChangesNothing ==
    (op.name \in {"sourceAdd", "targetAdd"} /\ Failed(op.ret))
        => /\ Registry(Persisted) = Registry(before)
           /\ StoreUnchanged

\* C20: a sourceAdd whose name is the name of a registered Source fails
\* without starting a git subprocess and without a change under the store.
C20_CollisionBeforeIngestion ==
    (/\ op.name = "sourceAdd"
     /\ op.arg.type = "remote" => parseGitUrl(op.arg.pathOrUrl).matched
     /\ NameCount(Registry(before).sources, ChosenName(op.arg)) > 0)
        => /\ Failed(op.ret)
           /\ ~op.git
           /\ StoreUnchanged

(***************************** target claims ********************************)
\* the absolute path that a path given to `skills target add` names
Where(path) ==
    (TPath \o <<Slash>> :> TPath) @@ (<<"~", Slash, "t">> :> TPath) @@ (NPath :> NPath)

TargetAdded == op.name = "targetAdd" /\ op.ret = Void

\* C21: after a targetAdd(name, path) that succeeded, the registry holds a
\* Target with that name and the absolute path that `path` names, that path
\* is a directory, and compareDirectories(store, path) returns 'synced'.
C21_AddedTargetIsSynced ==
    TargetAdded =>
        LET target == [name |-> op.arg.name, path |-> Where(op.arg.path)[op.arg.path]]
        IN  /\ Persisted.kind = "json"
            /\ \E i \in DOMAIN Persisted.targets : Persisted.targets[i] = target
            /\ directoryExists(fs, PathOf(target.path))
            /\ \A r \in compareDirectories(fs, SKILLS_STORE, PathOf(target.path)) :
                   r.status = "synced"
TargetRemoved ==
    /\ op.name = "targetRemove"
    /\ before.kind = "json"
    /\ \E i \in DOMAIN before.targets : before.targets[i].name = op.arg

\* the index of the entry that targetRemove was asked to remove
RemovedIndex == findIndex(before.targets, op.arg)

\* a tree without the registry file
WithoutRegistry(tree) == rmRf(tree, CONFIG_PATH)

C29_SyncLeavesStoreAndRegistry ==
    Synced =>
        /\ Registry(Persisted) = Registry(before)
        /\ \A i \in DOMAIN op.log :
               \A k \in DOMAIN op.log[i].states :
                   Lookup(op.log[i].states[k], SKILLS_STORE) = Lookup(op.start, SKILLS_STORE)
\* C30: after a sync() in which no target failed, compareDirectories(store,
\* target.path) returns 'synced' for every registered target, whatever the
\* target paths are (two targets at one path and a target inside another
\* included).
C30_AllTargetsSyncedAfterSync ==
    (Synced /\ \A i \in DOMAIN op.log : op.log[i].ret = Void)
        => \A i \in DOMAIN Registry(before).targets :
               \A r \in compareDirectories(fs, SKILLS_STORE,
                                              PathOf(Registry(before).targets[i].path)) :
                   r.status = "synced"
(***************************** migration claim ******************************)
\* what follows the last "/" of a namespace
LastSegment(namespace) ==
    LET slashes == {i \in DOMAIN namespace : namespace[i] = Slash}
        last == IF slashes = {} THEN 0
                ELSE CHOOSE i \in slashes : \A j \in slashes : j <= i
    IN  SubSeq(namespace, last + 1, Len(namespace))

LoadedLegacy ==
    /\ op.name = "readConfig"
    /\ before.kind = "json"
    /\ \E i \in DOMAIN before.sources : NeedsMigration(before.sources[i])

\* C27: a readConfig over a registry with entries that have a namespace and
\* no name returns each such entry with name = the last "/"-segment of its
\* namespace and without namespace, every other field and entry as it was,
\* persists that registry in the same load, and a readConfig right after it
\* migrates nothing and returns the same Config.
C27_MigrationOnceAndPersisted ==
    LoadedLegacy =>
        /\ op.ret.tag = "value"
        /\ DOMAIN op.ret.value.sources = DOMAIN before.sources
        /\ op.ret.value.targets = before.targets
        /\ \A i \in DOMAIN before.sources :
               LET was == before.sources[i]
                   is == op.ret.value.sources[i]
               IN  IF NeedsMigration(was)
                   THEN /\ DOMAIN is = (DOMAIN was \ {"namespace"}) \cup {"name"}
                        /\ is.name = LastSegment(was.namespace)
                        /\ \A f \in DOMAIN was \ {"namespace"} : is[f] = was[f]
                   ELSE is = was
        /\ Persisted.kind = "json"
        /\ JSONparse(Persisted) = op.ret.value
        /\ \A r \in readConfig(fs, DEFAULT_CONFIG) :
               ~r.threw /\ r.fs = fs /\ r.config = op.ret.value

\* a registry of two namespace-keyed entries was loaded and both folders of
\* the store were there to move
C27_Witness ==
    /\ LoadedLegacy
    /\ Len(before.sources) = 2
    /\ \A i \in DOMAIN Persisted.sources :
           /\ "namespace" \notin DOMAIN Persisted.sources[i]
           /\ Persisted.sources[i].name = NameX
    /\ IsDir(Lookup(fs, SKILLS_STORE \o <<NameX>>))
(***************************** URL claims ***********************************)
Parsed == op.name = "parseGitUrl" /\ op.ret.matched

GitTwice(url) == \E i \in DOMAIN url : i < Len(url) /\ url[i] = ".git" /\ url[i + 1] = ".git"

GitHubRepo == <<"https:", Slash, Slash, "github.com", Slash, "owner", Slash, "repo">>

\* the two GitHub URLs of a repository and the /tree/<branch>/<path> URLs
C23_Examples ==
    /\ (op.name = "parseGitUrl" /\ op.arg \in {GitHubRepo, GitHubRepo \o <<".git">>})
           => /\ op.ret.matched
              /\ op.ret.repo = <<"repo">>
              /\ op.ret.cloneUrl = GitHubRepo \o <<".git">>
    /\ \A b \in Branches, d \in Subdirs, sc \in Schemes :
           (/\ op.name = "parseGitUrl"
            /\ Last(d) # Slash
            /\ op.arg = WebUrl(sc, "github.com", <<"repo">>, <<Slash, "tree", Slash>> \o b \o <<Slash>> \o d))
               => /\ op.ret.matched
                  /\ op.ret.branch = b
                  /\ op.ret.subdir = d

\* the statement of C23 as the specification has it: whatever the URL, repo
\* does not end in ".git"
C23_RepoNeverEndsInGit ==
    /\ Parsed => ~EndsWithGit(op.ret.repo) /\ EndsWithGit(op.ret.cloneUrl)
    /\ C23_Examples

\* C23: for every URL that parseGitUrl matches, by whichever matcher,
\* cloneUrl ends in ".git" and repo does not, unless the URL names the
\* repository with ".git" more than once (one ".git" is stripped);
\* https://github.com/owner/repo and https://github.com/owner/repo.git both
\* give repo "repo" and cloneUrl https://github.com/owner/repo.git, and a
\* /tree/<branch>/<path> URL gives that branch and that subdir.
C23_OneGitStripped ==
    /\ Parsed => /\ EndsWithGit(op.ret.cloneUrl)
                 /\ EndsWithGit(op.ret.repo) => GitTwice(op.arg)
    /\ C23_Examples

\* a subdirectory URL whose repository is written with ".git" was parsed
C23_Witness ==
    /\ Parsed
    /\ op.arg = WebUrl(<<"https:", Slash, Slash>>, "gitlab.com", <<"repo", ".git">>,
                       <<Slash, "-", Slash, "tree", Slash, "main", Slash, "s", Slash, "x">>)
    /\ op.ret.repo = <<"repo">>
    /\ op.ret.branch = <<"main">>
    /\ op.ret.subdir = <<"s", Slash, "x">>
    /\ op.ret.cloneUrl = <<"https:", Slash, Slash, "gitlab.com", Slash, "owner", Slash, "repo", ".git">>
(***************************** more command claims **************************)
\* a string of one of the shapes parseGitUrl is documented to support: it
\* begins with https://, http:// or git@
Supported(url) ==
    /\ url # <<>>
    /\ \/ Head(url) = "git@"
       \/ Len(url) >= 3 /\ SubSeq(url, 1, 3) \in {<<"https:", Slash, Slash>>, <<"http:", Slash, Slash>>}

\* C24: parseGitUrl returns null for every string that has none of the
\* supported shapes, and a sourceAdd or an update of a remote source with
\* such a URL fails and changes neither the store nor the registry.
C24_UnsupportedUrlRejected ==
    /\ (op.name = "sourceAdd" /\ op.arg.type = "remote" /\ ~Supported(op.arg.pathOrUrl))
           => /\ ~parseGitUrl(op.arg.pathOrUrl).matched
              /\ Failed(op.ret)
              /\ StoreUnchanged
              /\ Registry(Persisted) = Registry(before)
    /\ Updated =>
           \A i \in DOMAIN op.log :
               LET e == op.log[i]
               IN  (e.item.type = "remote" /\ ~Supported(e.item.url))
                       => /\ ~parseGitUrl(e.item.url).matched
                          /\ Failed(e.ret)
                          /\ Last(e.states) = e.states[1]
\* the folder of a store under a name
StoreChild(store, name) ==
    IF name \in DOMAIN StoreEntries(store) THEN StoreEntries(store)[name] ELSE Missing

\* the folders of the sources registered under another name than `name` are
\* in `is` what they were in `was`
OthersKept(sources, name, was, is) ==
    \A i \in DOMAIN sources :
        sources[i].name # name
            => StoreChild(is, sources[i].name) = StoreChild(was, sources[i].name)

\* C28: a sourceAdd under the name n and the update of the source n leave the
\* store folder of every other registered source as it was, whether they
\* succeed or fail, a source named n_temp included.
C28_OtherSourcesUntouched ==
    /\ (/\ op.name = "sourceAdd"
        /\ op.arg.type = "remote" => parseGitUrl(op.arg.pathOrUrl).matched)
           => OthersKept(Registry(before).sources, ChosenName(op.arg),
                         op.store, Lookup(fs, SKILLS_STORE))
    /\ Updated =>
           \A i \in DOMAIN op.log :
               OthersKept(Registry(before).sources, op.log[i].item.name,
                          Lookup(op.log[i].states[1], SKILLS_STORE),
                          Lookup(Last(op.log[i].states), SKILLS_STORE))
\* the items a batch goes through: the targets for sync(), the sources for
\* update()
Items == IF Synced THEN Registry(before).targets ELSE Registry(before).sources

\* C26: in one sync() and in one update() the items are handled one at a
\* time, in the order of the registry: each item is attempted once, and the
\* work on an item starts in the file system that the item before it left
\* and ends before the next one starts.
C26_OneItemAtATime ==
    ((Synced \/ Updated) /\ op.ret = Void)
        => /\ Len(op.log) = Len(Items)
           /\ \A i \in DOMAIN op.log : op.log[i].item = Items[i]
           /\ \A i \in DOMAIN op.log :
                  i < Len(op.log) => op.log[i + 1].states[1] = Last(op.log[i].states)
           /\ op.log # <<>> => Last(op.log[Len(op.log)].states) = fs

\* an update of two sources of which the first changed the store
C26_Witness ==
    /\ Updated
    /\ Len(op.log) = 2
    /\ op.log[1].states[1] # Last(op.log[1].states)
    /\ op.log[2].ret = Void
(***************************** concurrency claim ****************************)
\* the entry of a call is in the persisted registry
Registered(call) ==
    /\ Persisted.kind = "json"
    /\ \E i \in DOMAIN Persisted[ListOf(call)] : Persisted[ListOf(call)][i] = call.entry

BothDone == op.name = "race" /\ \A p \in Procs : op.pc[p] = "done" /\ op.ret[p] = Void

\* C25: nothing keeps two invocations apart: when two addSource/addTarget
\* calls with different new names have both read the registry before either
\* has written it, both return without error and the persisted registry holds
\* the entry of the one that wrote last and not the other's; when the second
\* read came after the first write, it holds both.
C25_LostUpdate ==
    BothDone =>
        \A p, q \in Procs :
            (p # q /\ op.last = q)
                => /\ Registered(op.calls[q])
                   /\ Registered(op.calls[p]) <=> op.readLate[q]

\* both calls returned without error and the registry holds one entry only
C25_Witness ==
    /\ BothDone
    /\ op.calls[1].fn = "addTarget"
    /\ op.calls[2].fn = "addTarget"
    /\ ~Registered(op.calls[1])
    /\ Registered(op.calls[2])
    /\ Len(Persisted.targets) = 1

====
